---- MODULE Spec2Model ----
(***************************************************************************)
(* Model of the wallet synchronisation engine, src/src/clients/sync.rs:    *)
(* sync_db (the stream phase that decodes, filters and persists notes, and *)
(* the reconciliation phase that moves spent notes) and                    *)
(* fetch_existing_nullifiers_remote.                                       *)
(*                                                                         *)
(* The remote node, the transport and the storage engine are the           *)
(* environment: every fallible call of the code (each `?`) has a failing   *)
(* outcome as well as a successful one.                                    *)
(***************************************************************************)
EXTENDS Integers, Sequences, FiniteSets, TLC

(* ------------------------------ bounds -------------------------------- *)
\* number of addresses for which store.retrieve_ssk succeeds (<= MAX_ADDRESSES)
NumKeys == 2
\* highest note position the remote ledger assigns
MaxPos == 1
\* highest block height the remote ledger assigns
MaxHeight == 1
\* number of leaves the remote ledger ever holds
MaxLedger == 2
\* longest answer of the remote to an existing_nullifiers query
MaxResp == 2
\* number of times sync_db is called
MaxRuns == 2

(* --------------------------- program constants ------------------------ *)
\* sync.rs:21  size_of::<ArchivedTreeLeaf>(), scaled down to two bytes:
\* one for block_height, one for the note
RKYV_TREE_LEAF_SIZE == 2

(* ------------------------------ data ---------------------------------- *)
\* sync.rs:29-36  the (ssk, vk, psk) tuples, in address-index order
addresses == 1 .. NumKeys

RECURSIVE Pow2(_)
Pow2(n) == IF n = 0 THEN 1 ELSE 2 * Pow2(n - 1)

\* A note is one byte: its position and an ownership pattern (bit k-1 set
\* iff view key k owns it).
NumTags == Pow2(NumKeys)
NumNotes == (MaxPos + 1) * NumTags
Notes == 0 .. (NumNotes - 1)

\* sync.rs:77  note.pos()
pos(note) == note \div NumTags

\* sync.rs:80  vk.owns(&note), for the view key of address k
owns(k, note) == ((note % NumTags) \div Pow2(k - 1)) % 2 = 1

\* sync.rs:81  note.gen_nullifier(ssk): unique per (note, owning key)
gen_nullifier(note, k) == <<note, k>>

Nullifiers == Notes \X addresses

\* byte values on the wire; BadByte is a byte no archived leaf may hold
BadByte == NumNotes
Bytes == 0 .. BadByte

\* phoenix_core TreeLeaf { block_height, note } as used at sync.rs:74
TreeLeaf(h, n) == [block_height |-> h, note |-> n]
Leaves == {TreeLeaf(h, n) : h \in 0 .. MaxHeight, n \in Notes}

\* the remote's serialisation of one leaf (the bytes sync.rs:75 reads)
to_bytes(leaf) == <<leaf.block_height, leaf.note>>

\* sync.rs:74-75  rkyv::from_bytes(leaf_bytes): validation accepts the frame?
valid_leaf(bytes) ==
    /\ Len(bytes) = RKYV_TREE_LEAF_SIZE
    /\ \A i \in 1 .. Len(bytes) : bytes[i] # BadByte
    /\ bytes[2] \in Notes

\* sync.rs:74-75  rkyv::from_bytes(leaf_bytes), for a frame that validates
from_bytes(bytes) == TreeLeaf(bytes[1], bytes[2])

\* Option<u64>: None is the empty sequence, Some(p) is <<p>>
None == <<>>
Some(p) == <<p>>

Max(a, b) == IF a >= b THEN a ELSE b

\* the request position without the increment
PosToSearch_NoInc(lp) == IF lp = None THEN 0 ELSE lp[1]

\* sync.rs:41  last_pos.map(|p| p + 1).unwrap_or_default()
PosToSearch(lp) == IF lp = None THEN 0 ELSE lp[1] + 1

\* sync.rs:42  last_pos.unwrap_or_default()
UnwrapOrDefault(lp) == IF lp = None THEN 0 ELSE lp[1]

\* sync.rs:79-86  the address loop with its break: index of the first
\* tuple whose view key owns the note, 0 when the loop ends without a match
RECURSIVE FirstOwnerFrom(_, _)
FirstOwnerFrom(k, note) ==
    IF k > NumKeys THEN 0
    ELSE IF owns(k, note) THEN k
    ELSE FirstOwnerFrom(k + 1, note)

\* the address loop without its break: the last owner wins
FirstOwner_Last(note) ==
    IF \A k \in addresses : ~owns(k, note) THEN 0
    ELSE CHOOSE k \in addresses :
             owns(k, note) /\ \A j \in addresses : owns(j, note) => j <= k

FirstOwner(note) == FirstOwnerFrom(1, note)

\* the running maximum replaced by the position of the last note
NewLastPos_NoMax(lp, note) == pos(note)

\* the running maximum taken over owned notes only
NewLastPos_OwnedOnly(lp, note) ==
    IF FirstOwner(note) = 0 THEN lp ELSE Max(lp, pos(note))

\* the running maximum kept as the next position to search
NewLastPos_Next(lp, note) == Max(lp, pos(note)) + 1

\* sync.rs:77  std::cmp::max(last_pos, *note.pos())
NewLastPos(lp, note) == Max(lp, pos(note))

\* sync.rs:71  buffer.chunks_exact(RKYV_TREE_LEAF_SIZE): number of frames
NumFrames(buf) == Len(buf) \div RKYV_TREE_LEAF_SIZE

\* sync.rs:73  the i-th frame (0-based) produced by leaf_chunk
Frame(buf, i) ==
    SubSeq(buf, i * RKYV_TREE_LEAF_SIZE + 1, (i + 1) * RKYV_TREE_LEAF_SIZE)

\* the buffer cleared after each chunk
Remainder_Drop(buf) == <<>>

\* sync.rs:90  leaf_chunk.remainder().to_vec()
Remainder(buf) ==
    SubSeq(buf, NumFrames(buf) * RKYV_TREE_LEAF_SIZE + 1, Len(buf))

(* --------------------------- key-value store -------------------------- *)
\* a partition (column family) is a function from keys to values
EmptyCf == [x \in {} |-> 0]

\* rocksdb put_cf, as called at sync.rs:122
put_cf(cf, key, value) ==
    [x \in (DOMAIN cf) \cup {key} |-> IF x = key THEN value ELSE cf[x]]

\* the delete left out
delete_cf_Keep(cf, key) == cf

\* rocksdb delete_cf, as called at sync.rs:123
delete_cf(cf, key) == [x \in (DOMAIN cf) \ {key} |-> cf[x]]

\* Cache::insert(psk, block_height, (note, nullifier)): the value stored
\* under the nullifier
NoteData(height, note) == <<height, note>>

\* Cache::insert_last_pos(position): the value the position cache holds
\* afterwards
insert_last_pos(position) == Some(position)

\* Cache::insert: writes the note into the live partition of the key
CacheInsert(cf, height, note, nullifier) ==
    put_cf(cf, nullifier, NoteData(height, note))

(* ------------------------------ remote -------------------------------- *)
RECURSIVE SelectFrom(_, _)
\* leaves_from_pos: the leaves of the ledger at or after position p, in
\* ledger order
SelectFrom(leaves, p) ==
    IF leaves = <<>> THEN <<>>
    ELSE IF pos(Head(leaves).note) >= p
         THEN <<Head(leaves)>> \o SelectFrom(Tail(leaves), p)
         ELSE SelectFrom(Tail(leaves), p)

RECURSIVE Flatten(_)
\* the byte stream of a sequence of leaves
Flatten(leaves) ==
    IF leaves = <<>> THEN <<>>
    ELSE to_bytes(Head(leaves)) \o Flatten(Tail(leaves))

\* the honest body of the response to leaves_from_pos(p)
CleanWire(leaves, p) == Flatten(SelectFrom(leaves, p))

\* the bodies the transport may deliver: the honest one, or the honest one
\* with one stray byte somewhere (a malformed frame, or a truncated record
\* at the end)
Wires(leaves, p) ==
    LET w == CleanWire(leaves, p) IN
    {w} \cup {SubSeq(w, 1, i) \o <<BadByte>> \o SubSeq(w, i + 1, Len(w)) :
                 i \in 0 .. Len(w)}

RECURSIVE SeqsUpTo(_, _)
SeqsUpTo(S, n) ==
    IF n = 0 THEN {<<>>}
    ELSE LET shorter == SeqsUpTo(S, n - 1) IN
         shorter \cup {Append(s, x) : s \in shorter, x \in S}

\* a nullifier the wallet did not ask about
Foreign(asked) ==
    IF Nullifiers \ asked = {} THEN {}
    ELSE {CHOOSE n \in Nullifiers \ asked : TRUE}

\* the answers the remote may give to existing_nullifiers(asked): any short
\* sequence over the nullifiers asked about and one that was not
Responses(asked) == SeqsUpTo(asked \cup Foreign(asked), MaxResp)


\* an answer of the remote to one existing_nullifiers query
Answers(asked) ==
    {<<"Ok", r>> : r \in Responses(asked)}
        \cup {<<"Err", "transport">>, <<"Err", "rkyv">>}

\* the query sent whatever the input
fetch_NoShortCircuit(asked, answer) == [trips |-> 1, result |-> answer]

\* every nullifier asked about is returned as existing, whatever the remote
\* answers
fetch_AllExisting(asked, answer) ==
    IF asked = {}
    THEN [trips |-> 0, result |-> <<"Ok", <<>>>>]
    ELSE [trips |-> 1,
          result |->
              IF answer[1] = "Ok"
              THEN <<"Ok", CHOOSE s \in [1 .. Cardinality(asked) -> asked] :
                               \A n \in asked : \E i \in DOMAIN s : s[i] = n>>
              ELSE answer]

\* sync.rs:133-152  fetch_existing_nullifiers_remote: the number of
\* round-trips made and the value returned, given what the remote answers
fetch_existing_nullifiers_remote(asked, answer) ==
    IF asked = {}
    THEN [trips |-> 0, result |-> <<"Ok", <<>>>>]
    ELSE [trips |-> 1, result |-> answer]

(* ------------------------------ state --------------------------------- *)
VARIABLES
    ledger,         \* remote: the leaves of the transfer contract's tree
    posCache,       \* Cache: the persisted last position, an Option
    cfs,            \* Cache: keys whose partitions have been created
    live,           \* Cache: per key, the live partition
    spent,          \* Cache: per key, the spent partition
    pc,             \* where sync_db stands
    outcome,        \* what the last call of sync_db returned
    last_pos,       \* sync_db local (sync.rs:42)
    pos_to_search,  \* sync_db local (sync.rs:41)
    wire,           \* bytes the stream has still to deliver
    buffer,         \* sync_db local (sync.rs:66)
    leaf_idx,       \* frames of leaf_chunk already consumed (sync.rs:73)
    key_idx,        \* position of the reconciliation loop (sync.rs:94)
    existing,       \* rest of the remote's answer still to move (sync.rs:116)
    fetched,        \* last stand-alone call of fetch_existing_nullifiers_remote
    runs,           \* number of calls of sync_db so far
    inserted,       \* per key and nullifier, the data of the last cache.insert
    confirmed,      \* per key, the nullifiers the remote confirmed to sync_db
    hist            \* observations of the current run

cacheVars == <<posCache, cfs, live, spent>>
localVars == <<last_pos, pos_to_search, wire, buffer, leaf_idx, key_idx, existing>>
vars == <<ledger, posCache, cfs, live, spent, pc, outcome, last_pos,
          pos_to_search, wire, buffer, leaf_idx, key_idx, existing, fetched,
          runs, inserted, confirmed, hist>>

NoFetch == [asked |-> {}, trips |-> 0, result |-> <<"None">>]

\* what is observed of the reconciliation pass of one key
NoRecon ==
    [created |-> FALSE,     \* cf_handle found the live partition
     live |-> EmptyCf,      \* the live partition when the pass began
     spent |-> EmptyCf,     \* the spent partition when the pass began
     queries |-> <<>>,      \* the queries sent to the remote
     answer |-> <<>>]       \* the nullifiers the remote confirmed

\* the observation made when the pass of key k begins, with the queries sent
\* and the answer received
Observed(k, queries, answer) ==
    [created |-> k \in cfs, live |-> live[k], spent |-> spent[k],
     queries |-> queries, answer |-> answer]

NoHist ==
    [afterOk |-> FALSE,     \* the run before returned Ok
     caughtUp |-> FALSE,    \* and the ledger has not grown since
     request |-> 0,         \* the position requested from the remote
     afterUnowned |-> FALSE, \* the run before returned Ok and decoded only unowned leaves
     served |-> 0,          \* length of the ledger when the stream was opened
     startPos |-> None,     \* the position cache when the run began
     startLive |-> [k \in addresses |-> EmptyCf],  \* the live partitions then
     startSpent |-> [k \in addresses |-> EmptyCf], \* the spent partitions then
     sent |-> <<>>,         \* the whole body of the stream
     decoded |-> <<>>,      \* the leaves deserialised, in order
     exhausted |-> FALSE,   \* the stream has ended and the while loop was left
     inserts |-> <<>>,      \* the (key, nullifier) pairs inserted, in order
     recon |-> [k \in addresses |-> NoRecon],  \* per key, its reconciliation
     reconciled |-> {}]     \* keys whose reconciliation pass has ended

Init ==
    /\ ledger = <<>>
    /\ posCache = None
    /\ cfs = {}
    /\ live = [k \in addresses |-> EmptyCf]
    /\ spent = [k \in addresses |-> EmptyCf]
    /\ pc = "idle"
    /\ outcome = "none"
    /\ last_pos = 0
    /\ pos_to_search = 0
    /\ wire = <<>>
    /\ buffer = <<>>
    /\ leaf_idx = 0
    /\ key_idx = 0
    /\ existing = <<>>
    /\ fetched = NoFetch
    /\ hist = NoHist
    /\ runs = 0
    /\ inserted = [k \in addresses |-> EmptyCf]
    /\ confirmed = [k \in addresses |-> {}]

\* what a run that begins now records about its starting point
StartHist ==
    [NoHist EXCEPT
        !.afterOk = (outcome = "ok"),
        !.caughtUp = (outcome = "ok" /\ hist.served = Len(ledger)),
        !.request = PosToSearch(posCache),
        !.afterUnowned = (outcome = "ok" /\ hist.inserts = <<>>
                            /\ hist.decoded # <<>>),
        !.startPos = posCache,
        !.startLive = live,
        !.startSpent = spent]

\* sync_db returns: its locals go out of scope
Return(result) ==
    /\ pc' = "idle"
    /\ outcome' = result
    /\ last_pos' = 0
    /\ pos_to_search' = 0
    /\ wire' = <<>>
    /\ buffer' = <<>>
    /\ leaf_idx' = 0
    /\ key_idx' = 0
    /\ existing' = <<>>

(* ---------------------------- environment ----------------------------- *)
\* the chain grows by one leaf
Grow ==
    /\ pc = "idle"
    /\ Len(ledger) < MaxLedger
    /\ \E leaf \in Leaves : ledger' = Append(ledger, leaf)
    /\ fetched' = NoFetch
    /\ UNCHANGED <<cacheVars, localVars, pc, outcome, runs, inserted, confirmed, hist>>

\* another caller of the crate asks the node about the live nullifiers of a
\* wallet that is new or synchronised, or about none
FetchCall ==
    /\ pc = "idle"
    /\ outcome \in {"none", "ok"}
    /\ fetched = NoFetch
    /\ \E asked \in {{}, UNION {DOMAIN live[k] : k \in addresses}} :
         \E answer \in {<<"Ok", r>> : r \in SeqsUpTo(asked, 1)}
                            \cup {<<"Err", "transport">>, <<"Err", "rkyv">>} :
           LET r == fetch_existing_nullifiers_remote(asked, answer) IN
           fetched' = [asked |-> asked, trips |-> r.trips, result |-> r.result]
    /\ UNCHANGED <<ledger, cacheVars, localVars, pc, outcome, runs, inserted, confirmed,
                   hist>>

(* ----------------------------- sync_db -------------------------------- *)
\* sync.rs:40-42  the cached position is read
StartSync ==
    /\ pc = "idle"
    /\ pos_to_search' = PosToSearch(posCache)
    /\ last_pos' = UnwrapOrDefault(posCache)
    /\ pc' = "call"
    /\ outcome' = "running"
    /\ fetched' = NoFetch
    /\ runs < MaxRuns
    /\ runs' = runs + 1
    /\ hist' = StartHist
    /\ UNCHANGED <<ledger, cacheVars, wire, buffer, leaf_idx, key_idx, existing,
                   inserted, confirmed>>

\* sync.rs:40  cache.last_pos()? fails
StartSyncErr ==
    /\ pc = "idle"
    /\ outcome' = "storage"
    /\ fetched' = NoFetch
    /\ runs < MaxRuns
    /\ runs' = runs + 1
    /\ hist' = StartHist
    /\ UNCHANGED <<ledger, cacheVars, localVars, pc, inserted, confirmed>>

\* sync.rs:50-58  call_raw answers and the body stream is opened
CallOk ==
    /\ pc = "call"
    /\ \E w \in Wires(ledger, pos_to_search) :
         /\ wire' = w
         /\ hist' = [hist EXCEPT !.sent = w, !.served = Len(ledger)]
    /\ buffer' = <<>>
    /\ pc' = "stream"
    /\ UNCHANGED <<ledger, cacheVars, outcome, last_pos, pos_to_search,
                   leaf_idx, key_idx, existing, fetched, runs, inserted, confirmed>>

\* sync.rs:57  call_raw(..).await? fails
CallErr ==
    /\ pc = "call"
    /\ Return("transport")
    /\ UNCHANGED <<ledger, cacheVars, fetched, runs, inserted, confirmed, hist>>

\* the caller drops the future while it awaits (sync.rs:57, sync.rs:68)
Cancel ==
    /\ pc \in {"call", "stream"}
    /\ Return("cancelled")
    /\ UNCHANGED <<ledger, cacheVars, fetched, runs, inserted, confirmed, hist>>

\* sync.rs:68-71  the stream yields a chunk, which is appended to buffer
ChunkOk ==
    /\ pc = "stream"
    /\ \E n \in 1 .. Len(wire) :
         /\ buffer' = buffer \o SubSeq(wire, 1, n)
         /\ wire' = SubSeq(wire, n + 1, Len(wire))
    /\ leaf_idx' = 0
    /\ pc' = "leaf"
    /\ UNCHANGED <<ledger, cacheVars, outcome, last_pos, pos_to_search,
                   key_idx, existing, fetched, runs, inserted, confirmed, hist>>

\* sync.rs:69  the stream yields an error
ChunkErr ==
    /\ pc = "stream"
    /\ Return("transport")
    /\ UNCHANGED <<ledger, cacheVars, fetched, runs, inserted, confirmed, hist>>

\* the loop is left although the stream has more to deliver
StreamEnd_Early ==
    /\ pc = "stream"
    /\ pc' = "recon"
    /\ key_idx' = 1
    /\ hist' = [hist EXCEPT !.exhausted = TRUE]
    /\ UNCHANGED <<ledger, cacheVars, outcome, last_pos, pos_to_search, wire,
                   buffer, leaf_idx, existing, fetched, runs, inserted, confirmed>>

\* sync.rs:68  the stream ends: the while loop is left
StreamEnd ==
    /\ pc = "stream"
    /\ wire = <<>>
    /\ pc' = "recon"
    /\ key_idx' = 1
    /\ hist' = [hist EXCEPT !.exhausted = TRUE]
    /\ UNCHANGED <<ledger, cacheVars, outcome, last_pos, pos_to_search, wire,
                   buffer, leaf_idx, existing, fetched, runs, inserted, confirmed>>

\* sync.rs:75  the next frame does not deserialise
LeafRkyvErr ==
    /\ pc = "leaf"
    /\ leaf_idx < NumFrames(buffer)
    /\ ~valid_leaf(Frame(buffer, leaf_idx))
    /\ Return("rkyv")
    /\ UNCHANGED <<ledger, cacheVars, fetched, runs, inserted, confirmed, hist>>

\* sync.rs:74-86  the next frame is decoded, no view key owns its note
LeafUnowned ==
    /\ pc = "leaf"
    /\ leaf_idx < NumFrames(buffer)
    /\ valid_leaf(Frame(buffer, leaf_idx))
    /\ LET leaf == from_bytes(Frame(buffer, leaf_idx)) IN
         /\ FirstOwner(leaf.note) = 0
         /\ last_pos' = NewLastPos(last_pos, leaf.note)
         /\ hist' = [hist EXCEPT !.decoded = Append(@, leaf)]
    /\ pc' = "pos"
    /\ UNCHANGED <<ledger, cacheVars, outcome, pos_to_search, wire, buffer,
                   leaf_idx, key_idx, existing, fetched, runs, inserted, confirmed>>

\* sync.rs:74-84  the next frame is decoded and its note is inserted for
\* the first key that owns it
LeafOwned ==
    /\ pc = "leaf"
    /\ leaf_idx < NumFrames(buffer)
    /\ valid_leaf(Frame(buffer, leaf_idx))
    /\ LET leaf == from_bytes(Frame(buffer, leaf_idx))
           k == FirstOwner(leaf.note)
       IN
         /\ k # 0
         /\ last_pos' = NewLastPos(last_pos, leaf.note)
         /\ live' = [live EXCEPT ![k] =
                CacheInsert(@, leaf.block_height, leaf.note,
                            gen_nullifier(leaf.note, k))]
         /\ cfs' = cfs \cup {k}
         /\ inserted' = [inserted EXCEPT ![k] =
                put_cf(@, gen_nullifier(leaf.note, k),
                       NoteData(leaf.block_height, leaf.note))]
         /\ hist' = [hist EXCEPT
                !.decoded = Append(@, leaf),
                !.inserts = Append(@, <<k, gen_nullifier(leaf.note, k)>>)]
    /\ pc' = "pos"
    /\ UNCHANGED <<ledger, posCache, spent, outcome, pos_to_search, wire,
                   buffer, leaf_idx, key_idx, existing, fetched, runs,
                   confirmed>>

\* sync.rs:82  cache.insert(..)? fails
LeafInsertErr ==
    /\ pc = "leaf"
    /\ leaf_idx < NumFrames(buffer)
    /\ valid_leaf(Frame(buffer, leaf_idx))
    /\ FirstOwner(from_bytes(Frame(buffer, leaf_idx)).note) # 0
    /\ hist' = [hist EXCEPT
           !.decoded = Append(@, from_bytes(Frame(buffer, leaf_idx)))]
    /\ Return("storage")
    /\ UNCHANGED <<ledger, cacheVars, fetched, runs, inserted, confirmed>>

\* sync.rs:87  cache.insert_last_pos(last_pos)
PersistPos ==
    /\ pc = "pos"
    /\ posCache' = insert_last_pos(last_pos)
    /\ leaf_idx' = leaf_idx + 1
    /\ pc' = "leaf"
    /\ UNCHANGED <<ledger, cfs, live, spent, outcome, last_pos, pos_to_search,
                   wire, buffer, key_idx, existing, fetched, runs, inserted, confirmed, hist>>

\* sync.rs:87  cache.insert_last_pos(last_pos)? fails
PersistPosErr ==
    /\ pc = "pos"
    /\ Return("storage")
    /\ UNCHANGED <<ledger, cacheVars, fetched, runs, inserted, confirmed, hist>>

\* sync.rs:88-90  leaf_chunk is exhausted: the remainder is kept
LeafDone ==
    /\ pc = "leaf"
    /\ leaf_idx >= NumFrames(buffer)
    /\ buffer' = Remainder(buffer)
    /\ leaf_idx' = 0
    /\ pc' = "stream"
    /\ UNCHANGED <<ledger, cacheVars, outcome, last_pos, pos_to_search, wire,
                   key_idx, existing, fetched, runs, inserted, confirmed, hist>>

(* --------------------------- reconciliation --------------------------- *)
\* sync.rs:94  the loop over addresses goes to the next key, or ends
NextKey ==
    /\ key_idx' = key_idx + 1
    /\ existing' = <<>>
    /\ pc' = "recon"

\* sync.rs:94-128  every address has been visited: Ok(())
SyncOk ==
    /\ pc = "recon"
    /\ key_idx > NumKeys
    /\ Return("ok")
    /\ UNCHANGED <<ledger, cacheVars, fetched, runs, inserted, confirmed, hist>>

\* sync.rs:98  cf_handle finds no live partition for the key
ReconNoCf ==
    /\ pc = "recon"
    /\ key_idx \in addresses
    /\ key_idx \notin cfs
    /\ NextKey
    /\ hist' = [hist EXCEPT !.reconciled = @ \cup {key_idx},
                            !.recon[key_idx] = Observed(key_idx, <<>>, <<>>)]
    /\ UNCHANGED <<ledger, cacheVars, outcome, last_pos, pos_to_search, wire,
                   buffer, leaf_idx, fetched, runs, inserted, confirmed>>

\* sync.rs:102-103  the iterator over the live partition yields an error
ReconIterErr ==
    /\ pc = "recon"
    /\ key_idx \in cfs
    /\ live[key_idx] # EmptyCf
    /\ Return("storage")
    /\ UNCHANGED <<ledger, cacheVars, fetched, runs, inserted, confirmed, hist>>

\* sync.rs:102-109  the live partition is iterated and holds no entry
ReconEmpty ==
    /\ pc = "recon"
    /\ key_idx \in cfs
    /\ DOMAIN live[key_idx] = {}
    /\ NextKey
    /\ hist' = [hist EXCEPT !.reconciled = @ \cup {key_idx},
                            !.recon[key_idx] = Observed(key_idx, <<>>, <<>>)]
    /\ UNCHANGED <<ledger, cacheVars, outcome, last_pos, pos_to_search, wire,
                   buffer, leaf_idx, fetched, runs, inserted, confirmed>>

\* sync.rs:102-115  the live partition holds entries: its nullifiers are
\* sent to the remote in one query, which answers
ReconFetchOk ==
    /\ pc = "recon"
    /\ key_idx \in cfs
    /\ LET nullifiers == DOMAIN live[key_idx] IN
         /\ nullifiers # {}
         /\ \E answer \in Answers(nullifiers) :
              LET r == fetch_existing_nullifiers_remote(nullifiers, answer) IN
              /\ r.result[1] = "Ok"
              /\ existing' = r.result[2]
              /\ pc' = IF r.result[2] = <<>> THEN "recon" ELSE "move"
              /\ key_idx' = IF r.result[2] = <<>> THEN key_idx + 1 ELSE key_idx
              /\ hist' = [hist EXCEPT
                     !.recon[key_idx] =
                         Observed(key_idx,
                                  IF r.trips = 0 THEN <<>> ELSE <<nullifiers>>,
                                  r.result[2]),
                     !.reconciled =
                         IF r.result[2] = <<>> THEN @ \cup {key_idx} ELSE @]
              /\ confirmed' = [confirmed EXCEPT
                     ![key_idx] =
                         @ \cup {answer[2][i] : i \in 1 .. Len(answer[2])}]
    /\ UNCHANGED <<ledger, cacheVars, outcome, last_pos, pos_to_search, wire,
                   buffer, leaf_idx, fetched, runs, inserted>>

\* sync.rs:113-115  the query fails (transport) or its answer does not
\* deserialise
ReconFetchErr ==
    /\ pc = "recon"
    /\ key_idx \in cfs
    /\ LET nullifiers == DOMAIN live[key_idx] IN
         /\ nullifiers # {}
         /\ \E answer \in Answers(nullifiers) :
              LET r == fetch_existing_nullifiers_remote(nullifiers, answer) IN
              /\ r.result[1] = "Err"
              /\ Return(r.result[2])
              /\ hist' = [hist EXCEPT
                     !.recon[key_idx] =
                         Observed(key_idx,
                                  IF r.trips = 0 THEN <<>> ELSE <<nullifiers>>,
                                  <<>>)]
    /\ UNCHANGED <<ledger, cacheVars, fetched, runs, inserted, confirmed>>

\* sync.rs:118-120  get_cf(&cf, key)? fails
MoveGetErr ==
    /\ pc = "move"
    /\ Return("storage")
    /\ UNCHANGED <<ledger, cacheVars, fetched, runs, inserted, confirmed, hist>>

\* sync.rs:121  get_cf finds no entry: expect("Note must exists to be moved")
MovePanic ==
    /\ pc = "move"
    /\ Head(existing) \notin DOMAIN live[key_idx]
    /\ Return("panic")
    /\ UNCHANGED <<ledger, cacheVars, fetched, runs, inserted, confirmed, hist>>

\* sync.rs:117-122  the note is read from live and written to spent
MovePut ==
    /\ pc = "move"
    /\ LET n == Head(existing) IN
         /\ n \in DOMAIN live[key_idx]
         /\ LET to_move == live[key_idx][n] IN
            spent' = [spent EXCEPT ![key_idx] = put_cf(@, n, to_move)]
    /\ pc' = "del"
    /\ UNCHANGED <<ledger, posCache, cfs, live, outcome, last_pos,
                   pos_to_search, wire, buffer, leaf_idx, key_idx, existing,
                   fetched, runs, inserted, confirmed, hist>>

\* sync.rs:122  put_cf(..)? fails
MovePutErr ==
    /\ pc = "move"
    /\ Head(existing) \in DOMAIN live[key_idx]
    /\ Return("storage")
    /\ UNCHANGED <<ledger, cacheVars, fetched, runs, inserted, confirmed, hist>>

\* sync.rs:123  the note is deleted from live; the loop over existing goes on
MoveDel ==
    /\ pc = "del"
    /\ live' = [live EXCEPT ![key_idx] = delete_cf(@, Head(existing))]
    /\ existing' = Tail(existing)
    /\ pc' = IF Tail(existing) = <<>> THEN "recon" ELSE "move"
    /\ key_idx' = IF Tail(existing) = <<>> THEN key_idx + 1 ELSE key_idx
    /\ hist' = [hist EXCEPT
           !.reconciled = IF Tail(existing) = <<>> THEN @ \cup {key_idx} ELSE @]
    /\ UNCHANGED <<ledger, posCache, cfs, spent, outcome, last_pos,
                   pos_to_search, wire, buffer, leaf_idx, fetched, runs, inserted, confirmed>>

\* sync.rs:123  delete_cf(..)? fails
MoveDelErr ==
    /\ pc = "del"
    /\ Return("storage")
    /\ UNCHANGED <<ledger, cacheVars, fetched, runs, inserted, confirmed, hist>>

(* --------------------------- specification ---------------------------- *)
Next ==
    \/ Grow
    \/ FetchCall
    \/ StartSync
    \/ StartSyncErr
    \/ CallOk
    \/ CallErr
    \/ Cancel
    \/ ChunkOk
    \/ ChunkErr
    \/ StreamEnd
    \/ LeafRkyvErr
    \/ LeafUnowned
    \/ LeafOwned
    \/ LeafInsertErr
    \/ PersistPos
    \/ PersistPosErr
    \/ LeafDone
    \/ SyncOk
    \/ ReconNoCf
    \/ ReconIterErr
    \/ ReconEmpty
    \/ ReconFetchOk
    \/ ReconFetchErr
    \/ MoveGetErr
    \/ MovePanic
    \/ MovePut
    \/ MovePutErr
    \/ MoveDel
    \/ MoveDelErr

Spec == Init /\ [][Next]_vars

(* ------------------------------ claims -------------------------------- *)
Last(seq) == seq[Len(seq)]
Range(seq) == {seq[i] : i \in 1 .. Len(seq)}
Restrict(f, S) == [x \in S |-> f[x]]

\* the bytes the stream has delivered so far in the current run
Delivered == SubSeq(hist.sent, 1, Len(hist.sent) - Len(wire))

\* the leaves the decode loop yields when `bytes` arrives as one chunk
OneChunk(bytes) == [i \in 1 .. NumFrames(bytes) |-> from_bytes(Frame(bytes, i - 1))]

RECURSIVE StreamResult(_, _, _, _)
\* the position cache and the live partitions after lines 74-87 have run
\* for each of `leaves` in order
StreamResult(leaves, lp, cached, lv) ==
    IF leaves = <<>> THEN [posCache |-> cached, live |-> lv]
    ELSE LET leaf == Head(leaves)
             k == FirstOwner(leaf.note)
             nlp == NewLastPos(lp, leaf.note)
         IN StreamResult(Tail(leaves), nlp, insert_last_pos(nlp),
                IF k = 0 THEN lv
                ELSE [lv EXCEPT ![k] =
                        CacheInsert(@, leaf.block_height, leaf.note,
                                    gen_nullifier(leaf.note, k))])

RECURSIVE MaxPosOf(_)
\* the highest position among leaves (0 for none)
MaxPosOf(leaves) ==
    IF leaves = <<>> THEN 0
    ELSE Max(pos(Head(leaves).note), MaxPosOf(Tail(leaves)))

\* C1: the persisted position never decreases: once a position is
\* persisted, every step leaves a position that is at least as high.
C1_PositionMonotonic ==
    [][posCache # None =>
          (posCache' # None /\ posCache'[1] >= posCache[1])]_vars

\* a position has just been written for a leaf whose position is below the
\* persisted one (the leaves arrived out of order)
C1_Witness ==
    /\ pc = "leaf"
    /\ leaf_idx >= 1
    /\ hist.decoded # <<>>
    /\ posCache # None
    /\ pos(Last(hist.decoded).note) < posCache[1]

\* C2: for every key, in every reachable state, no nullifier is a key of
\* both the live and the spent partition.
C2_PartitionsDisjoint ==
    \A k \in addresses : (DOMAIN live[k]) \cap (DOMAIN spent[k]) = {}

\* the leaves the remote held, when the stream of the current run was
\* opened, at or after the position the run requested
NewForRun == SelectFrom(SubSeq(ledger, 1, hist.served), hist.request)

\* C3: a run that follows a completed run, the ledger not having grown in
\* between or the remote holding no leaf at or after the position the run
\* requests, inserts no note and leaves the persisted position unchanged.
C3_Resumability ==
    (hist.afterOk /\ (hist.caughtUp \/ NewForRun = <<>>)) =>
        /\ hist.inserts = <<>>
        /\ hist.decoded = <<>>
        /\ posCache = hist.startPos

\* the second of two completed runs over the same non-empty ledger has ended
C3_Witness ==
    /\ hist.caughtUp
    /\ outcome = "ok"
    /\ posCache # None
    /\ \E k \in addresses : DOMAIN live[k] # {} \/ DOMAIN spent[k] # {}

\* C4: however the bytes are split into chunks, the leaves decoded are those
\* of the whole byte stream taken as one chunk, a partial record stays
\* buffered, a failed deserialisation is that of the first invalid frame of
\* the whole stream, and when the stream is exhausted the position and the
\* live partitions are those that processing these leaves in order produces.
C4_ChunkIndependence ==
    /\ pc = "stream" =>
          /\ hist.decoded = OneChunk(Delivered)
          /\ buffer = Remainder(Delivered)
    /\ (outcome = "rkyv" /\ ~hist.exhausted) =>
          /\ Len(hist.decoded) < NumFrames(hist.sent)
          /\ hist.decoded = SubSeq(OneChunk(hist.sent), 1, Len(hist.decoded))
          /\ \A i \in 0 .. Len(hist.decoded) - 1 : valid_leaf(Frame(hist.sent, i))
          /\ ~valid_leaf(Frame(hist.sent, Len(hist.decoded)))
    /\ (pc = "recon" /\ key_idx = 1) =>
          /\ hist.decoded = OneChunk(hist.sent)
          /\ LET r == StreamResult(OneChunk(hist.sent),
                                   UnwrapOrDefault(hist.startPos),
                                   hist.startPos, hist.startLive)
             IN posCache = r.posCache /\ live = r.live

\* one leaf has been decoded, half of the next one is buffered and its other
\* half is still to come
C4_Witness ==
    /\ pc = "stream"
    /\ Len(hist.decoded) = 1
    /\ Len(buffer) = 1
    /\ Len(wire) = 1
    /\ wire[1] # BadByte
    /\ buffer[1] # BadByte

\* C5: when the reconciliation pass of a key has ended, its live partition
\* is the one the pass found without the confirmed nullifiers, and its spent
\* partition is the one the pass found plus the confirmed entries, each with
\* the data it had in the live partition.
C5_Reconciliation ==
    \A k \in hist.reconciled :
        LET o == hist.recon[k]
            S == Range(o.answer)
        IN /\ S \subseteq DOMAIN o.live
           /\ live[k] = Restrict(o.live, (DOMAIN o.live) \ S)
           /\ DOMAIN spent[k] = (DOMAIN o.spent) \cup S
           /\ \A n \in S : spent[k][n] = o.live[n]
           /\ \A n \in (DOMAIN o.spent) \ S : spent[k][n] = o.spent[n]

\* a pass found two live notes, the remote confirmed one of them
C5_Witness ==
    \E k \in hist.reconciled :
        /\ Cardinality(DOMAIN hist.recon[k].live) = 2
        /\ Len(hist.recon[k].answer) = 1
        /\ Cardinality(DOMAIN live[k]) = 1
        /\ Cardinality(DOMAIN spent[k]) = 1

\* C6: a reconciliation pass sends no query for a key whose live partition
\* is empty or was never created and exactly one, carrying all nullifiers of
\* the partition, otherwise; fetch_existing_nullifiers_remote with an empty
\* input returns an empty result without a round-trip.
C6_QueryCount ==
    /\ \A k \in addresses :
          LET o == hist.recon[k] IN
          /\ (~o.created \/ DOMAIN o.live = {}) => o.queries = <<>>
          /\ DOMAIN o.live # {} => o.queries = <<DOMAIN o.live>>
    /\ (fetched # NoFetch /\ fetched.asked = {}) =>
          (fetched.trips = 0 /\ fetched.result = <<"Ok", <<>>>>)

\* after a completed run that queried for one key and found no partition
\* for another, a call with an empty input has returned
C6_Witness ==
    /\ outcome = "ok"
    /\ \E k \in addresses : Len(hist.recon[k].queries) = 1
    /\ \E k \in hist.reconciled : ~hist.recon[k].created
    /\ fetched # NoFetch
    /\ fetched.asked = {}

\* the keys that hold `note` in their live or spent partition
HoldersOf(note) ==
    {k \in addresses :
        \/ \E n \in DOMAIN live[k] : live[k][n][2] = note
        \/ \E n \in DOMAIN spent[k] : spent[k][n][2] = note}

\* C7: a note is held by at most one key, the first key in address order
\* that owns it; a note owned by exactly one key is held by that key only.
C7_FirstOwnerOnly ==
    \A note \in Notes :
        \A k \in HoldersOf(note) :
            /\ HoldersOf(note) = {k}
            /\ owns(k, note)
            /\ \A j \in addresses : owns(j, note) => k <= j

\* a note that both keys own is held by the first key
C7_Witness ==
    \E note \in Notes :
        /\ \A k \in addresses : owns(k, note)
        /\ HoldersOf(note) = {1}

\* C8: a leaf that no key owns changes no partition, the position written
\* after it is at least its position, and the run after a completed run that
\* decoded only unowned leaves requests from the highest position seen plus
\* one.
C8_UnownedAdvances ==
    [][/\ (pc = "leaf" /\ pc' = "pos"
              /\ FirstOwner(Last(hist'.decoded).note) = 0) =>
          (live' = live /\ spent' = spent /\ cfs' = cfs)
       /\ (pc = "pos" /\ pc' = "leaf"
              /\ FirstOwner(Last(hist.decoded).note) = 0) =>
          (posCache' # None
              /\ posCache'[1] >= pos(Last(hist.decoded).note))
       /\ (pc = "idle" /\ pc' = "call" /\ outcome = "ok"
              /\ hist.inserts = <<>> /\ hist.decoded # <<>>) =>
          pos_to_search' = MaxPosOf(hist.decoded) + 1]_vars

\* a run has begun after a completed run that decoded only unowned leaves
C8_Witness ==
    /\ pc = "call"
    /\ hist.afterUnowned
    /\ pos_to_search >= 1
    /\ \A k \in addresses : live[k] = EmptyCf /\ spent[k] = EmptyCf

\* C9: processing an owned leaf whose last insertion under its nullifier
\* was of the same leaf changes nothing in the cache: the entry is in the
\* owner's live partition with the same data and in no other partition.
C9_IdempotentInsert ==
    [][(pc = "leaf" /\ pc' = "pos") =>
          LET leaf == Last(hist'.decoded)
              k == FirstOwner(leaf.note)
              n == gen_nullifier(leaf.note, k)
          IN (/\ k # 0
              /\ n \in DOMAIN inserted[k]
              /\ inserted[k][n] = NoteData(leaf.block_height, leaf.note)) =>
                 /\ live' = live
                 /\ spent' = spent
                 /\ cfs' = cfs
                 /\ n \in DOMAIN live'[k]
                 /\ live'[k][n] = NoteData(leaf.block_height, leaf.note)
                 /\ \A j \in addresses :
                       /\ n \notin DOMAIN spent'[j]
                       /\ j # k => n \notin DOMAIN live'[j]]_vars

\* in a second run, a leaf that an earlier, aborted run had inserted has
\* been inserted again
C9_Witness ==
    /\ pc = "pos"
    /\ runs = 2
    /\ hist.startPos = None
    /\ LET leaf == Last(hist.decoded)
           k == FirstOwner(leaf.note)
           n == gen_nullifier(leaf.note, k)
       IN /\ k # 0
          /\ n \in DOMAIN hist.startLive[k]
          /\ hist.startLive[k][n] = NoteData(leaf.block_height, leaf.note)

\* C10: sync_db returns Ok only if every byte the stream delivered was
\* decoded into a leaf and the reconciliation pass ended for every key, and
\* otherwise returns a transport, deserialisation or storage error.
C10_CompleteOrError ==
    /\ outcome = "ok" =>
          /\ Len(hist.decoded) * RKYV_TREE_LEAF_SIZE = Len(hist.sent)
          /\ hist.reconciled = addresses
    /\ outcome # "panic"

\* the body of a stream holds a record that is malformed: a frame that does
\* not deserialise, or a last record of the wrong size
Malformed(bytes) ==
    \/ \E i \in 0 .. NumFrames(bytes) - 1 : ~valid_leaf(Frame(bytes, i))
    \/ Remainder(bytes) # <<>>

\* the position cache after the first i leaves decoded in the current run
\* have been processed
PosAsOf(i) ==
    IF i = 0 THEN hist.startPos
    ELSE Some(Max(UnwrapOrDefault(hist.startPos),
                  MaxPosOf(SubSeq(hist.decoded, 1, i))))

\* C11: a stream with a malformed record (wrong structure or wrong size)
\* never gets through the stream phase; when a frame does not deserialise
\* the run fails with the deserialisation error, the leaves decoded are
\* those before that frame, and position and live partitions are those
\* that processing these leaves produces.
C11_MalformedAborts ==
    /\ hist.exhausted => ~Malformed(hist.sent)
    /\ (outcome = "rkyv" /\ ~hist.exhausted) =>
          /\ ~valid_leaf(Frame(hist.sent, Len(hist.decoded)))
          /\ \A i \in 0 .. Len(hist.decoded) - 1 : valid_leaf(Frame(hist.sent, i))
          /\ posCache = PosAsOf(Len(hist.decoded))
          /\ live = StreamResult(hist.decoded, UnwrapOrDefault(hist.startPos),
                                 hist.startPos, hist.startLive).live
          /\ spent = hist.startSpent

\* the part of C11 about frames that do not deserialise
C11_BadFrameAborts ==
    /\ hist.exhausted =>
          \A i \in 0 .. NumFrames(hist.sent) - 1 : valid_leaf(Frame(hist.sent, i))
    /\ (outcome = "rkyv" /\ ~hist.exhausted) =>
          /\ ~valid_leaf(Frame(hist.sent, Len(hist.decoded)))
          /\ \A i \in 0 .. Len(hist.decoded) - 1 : valid_leaf(Frame(hist.sent, i))
          /\ posCache = PosAsOf(Len(hist.decoded))
          /\ live = StreamResult(hist.decoded, UnwrapOrDefault(hist.startPos),
                                 hist.startPos, hist.startLive).live
          /\ spent = hist.startSpent

\* the remote's answer for key k names a nullifier that is not in the live
\* partition when the migration reaches it: one that was not queried, or
\* one named a second time
AbsentNamed(k) ==
    LET answer == hist.recon[k].answer
        queried == DOMAIN hist.recon[k].live
    IN  \/ \E i \in 1 .. Len(answer) : answer[i] \notin queried
        \/ \E i, j \in 1 .. Len(answer) : i < j /\ answer[i] = answer[j]

\* C12: a run whose reconciliation was asked to migrate a nullifier that is
\* absent from the live partition ends by returning an error to the caller
\* of sync_db.
C12_AbsentIsError ==
    (pc = "idle" /\ \E k \in addresses : AbsentNamed(k)) =>
        outcome \in {"transport", "rkyv", "storage"}

\* the part of C12 that holds: such a run never returns Ok and never ends
\* the pass of that key
C12_AbsentNotIgnored ==
    \A k \in addresses :
        AbsentNamed(k) => outcome # "ok" /\ k \notin hist.reconciled

\* the outcomes in which sync_db returns Err through one of its ? operators
Errors == {"transport", "rkyv", "storage"}

\* C13: the step by which a run aborts with a transport, deserialisation or
\* storage error, in the stream phase or in reconciliation, changes nothing
\* in the cache, every note the run inserted is still in the live or spent
\* partition of its key, and the attempt that follows an abort requests
\* from the persisted position plus one.
C13_AbortKeepsProgress ==
    [][ /\ (pc # "idle" /\ pc' = "idle" /\ outcome' \in Errors) =>
              /\ posCache' = posCache
              /\ live' = live
              /\ spent' = spent
              /\ cfs' = cfs
              /\ \A i \in 1 .. Len(hist.inserts) :
                    hist.inserts[i][2] \in
                        DOMAIN live'[hist.inserts[i][1]]
                            \cup DOMAIN spent'[hist.inserts[i][1]]
        /\ (pc = "idle" /\ pc' = "call" /\ outcome \in Errors
                /\ posCache # None) =>
              pos_to_search' = posCache[1] + 1
      ]_vars

\* a run aborted in reconciliation after it inserted a note and persisted a
\* position, and another attempt can follow
C13_Witness ==
    /\ pc = "idle"
    /\ outcome \in Errors
    /\ hist.exhausted
    /\ hist.inserts # <<>>
    /\ posCache # None
    /\ runs < MaxRuns

\* the indices of the decoded leaves that a key owns
OwnedIdx == {i \in 1 .. Len(hist.decoded) : FirstOwner(hist.decoded[i].note) # 0}

\* the index of the last decoded leaf whose note was inserted (0: none was)
LastInserted ==
    IF hist.inserts = <<>> THEN 0
    ELSE CHOOSE i \in OwnedIdx :
             Cardinality({j \in OwnedIdx : j <= i}) = Len(hist.inserts)

\* an Option of a position is at most another
OptLe(a, b) == a = None \/ (b # None /\ a[1] <= b[1])

\* the numbers of decoded leaves whose position write may have completed,
\* given where sync_db stands
Completed ==
    LET n == Len(hist.decoded) IN
    IF pc = "pos" THEN {n - 1}
    ELSE IF pc = "idle" THEN {n} \cup (IF n > 0 THEN {n - 1} ELSE {})
    ELSE {n}

\* C14 (as stated): the position cache is written only after a note
\* insertion: the persisted position is never beyond the running maximum as
\* of the last record whose note was inserted.
C14_OnlyAfterInsertion ==
    OptLe(posCache, PosAsOf(LastInserted))

\* C14 (amended): the position cache is written after every decoded record,
\* owned or not, and after the record's note insertion when it is owned: in
\* every state, also after a cancellation or an abort, the persisted
\* position is the running maximum as of the last record whose position
\* write completed, and every owned record up to that one was inserted.
C14_AfterEveryRecord ==
    \E c \in Completed :
        /\ posCache = PosAsOf(c)
        /\ Cardinality({i \in OwnedIdx : i <= c}) <= Len(hist.inserts)

\* a run was cancelled mid-stream having inserted no note, and a position
\* was persisted in it
C14_Witness ==
    /\ pc = "idle"
    /\ outcome = "cancelled"
    /\ ~hist.exhausted
    /\ hist.inserts = <<>>
    /\ posCache # hist.startPos

\* C15: reconciliation starts only when the stream has delivered its whole
\* body and every full frame of it was decoded; until then no note has
\* left a live partition, the spent partitions are as the run found them
\* and no nullifier query was sent, which is how a run whose stream phase
\* aborts ends.
C15_ReconAfterStream ==
    /\ pc \in {"recon", "move", "del"} =>
          hist.exhausted /\ wire = <<>> /\ buffer = Remainder(buffer)
    /\ hist.exhausted => hist.decoded = OneChunk(hist.sent)
    /\ ~hist.exhausted =>
          /\ spent = hist.startSpent
          /\ \A k \in addresses :
                /\ DOMAIN hist.startLive[k] \subseteq DOMAIN live[k]
                /\ hist.recon[k] = NoRecon

\* a run aborted in its stream phase while a live partition held a note
\* whose nullifier reconciliation would have queried
C15_Witness ==
    /\ pc = "idle"
    /\ outcome \in Errors \cup {"cancelled"}
    /\ ~hist.exhausted
    /\ hist.decoded # <<>>
    /\ \E k \in addresses : live[k] # EmptyCf

\* C16: a nullifier is a key of the spent partition of a key only if
\* cache.insert put it into the live partition of that key before, with the
\* same data, and the remote named it in the answer to a nullifier query of
\* that key's reconciliation.
C16_SpentWasLiveAndConfirmed ==
    \A k \in addresses : \A n \in DOMAIN spent[k] :
        /\ n \in DOMAIN inserted[k]
        /\ spent[k][n] = inserted[k][n]
        /\ n \in confirmed[k]

\* a run ended with one note of a key moved to spent and another, which
\* the remote did not confirm, still live
C16_Witness ==
    /\ pc = "idle"
    /\ outcome = "ok"
    /\ \E k \in addresses :
          /\ spent[k] # EmptyCf
          /\ \E n \in DOMAIN live[k] : n \notin confirmed[k]

\* C17: over any number of runs against a remote that serves the records
\* at or after the requested position, every nullifier cache.insert ever
\* wrote for a key stays in the live or the spent partition of that key, a
\* spent partition never loses a nullifier, and a nullifier that is spent
\* and no longer live is never live again.
C17_NeverLostNeverBack ==
    [][ \A k \in addresses :
          /\ DOMAIN inserted'[k] \subseteq DOMAIN live'[k] \cup DOMAIN spent'[k]
          /\ DOMAIN spent[k] \subseteq DOMAIN spent'[k]
          /\ \A n \in DOMAIN spent[k] \ DOMAIN live[k] : n \notin DOMAIN live'[k]
      ]_vars

\* a later run has just inserted a note for a key while a note of an earlier
\* run is in a spent partition
C17_Witness ==
    /\ runs > 1
    /\ pc = "pos"
    /\ hist.inserts # <<>>
    /\ \E k \in addresses : DOMAIN spent[k] \ DOMAIN live[k] # {}

\* C18: the position a run requests is the persisted position plus one, or
\* 0 when none is persisted; while a run has decoded no record the position
\* cache is as the run found it, so a cache with no position still has none
\* after such a run and the following run requests from 0 again.
C18_RequestPosition ==
    /\ pc # "idle" =>
          /\ pos_to_search =
                (IF hist.startPos = None THEN 0 ELSE hist.startPos[1] + 1)
          /\ hist.request = pos_to_search
    /\ hist.decoded = <<>> => posCache = hist.startPos
    /\ (hist.afterOk /\ hist.startPos = None /\ pc # "idle") => pos_to_search = 0

\* the run after a completed run that decoded no record is in progress: no
\* position is persisted and it requests from 0
C18_Witness ==
    /\ runs > 1
    /\ hist.afterOk
    /\ pc = "stream"
    /\ posCache = None
    /\ pos_to_search = 0

\* a run that started from a persisted position has opened its stream
C18_WitnessResume ==
    /\ pc = "stream"
    /\ hist.startPos # None
    /\ pos_to_search = hist.startPos[1] + 1

\* the positions of a sequence of leaves increase strictly
StrictlyIncreasing(leaves) ==
    \A i, j \in 1 .. Len(leaves) :
        i < j => pos(leaves[i].note) < pos(leaves[j].note)

\* C19: the leaves a run decodes are, in order, the first records of the
\* stream it was served; when the position of a record is about to be
\* written the note of an owned record is already in the live partition;
\* and when the stream's positions increase strictly, in every state, also
\* after an abort at any step, each owned record of the stream at or below
\* the persisted position is in the live or spent partition of its owner.
C19_NoOwnedSkipped ==
    /\ Len(hist.decoded) <= Len(NewForRun)
    /\ \A i \in 1 .. Len(hist.decoded) : hist.decoded[i] = NewForRun[i]
    /\ pc = "pos" =>
          LET note == Last(hist.decoded).note
              k == FirstOwner(note)
          IN  k # 0 => gen_nullifier(note, k) \in DOMAIN live[k]
    /\ StrictlyIncreasing(NewForRun) =>
          \A i \in 1 .. Len(NewForRun) :
              LET note == NewForRun[i].note
                  k == FirstOwner(note)
              IN  (k # 0 /\ posCache # None /\ pos(note) <= posCache[1]) =>
                      gen_nullifier(note, k)
                          \in DOMAIN live[k] \cup DOMAIN spent[k]

\* a run served two records in strictly increasing position order, the
\* first of them owned, was cancelled or aborted mid-stream after it
\* persisted a position
C19_Witness ==
    /\ pc = "idle"
    /\ outcome \in Errors \cup {"cancelled"}
    /\ ~hist.exhausted
    /\ Len(NewForRun) = 2
    /\ StrictlyIncreasing(NewForRun)
    /\ FirstOwner(NewForRun[1].note) # 0
    /\ posCache # hist.startPos

====
